---- MODULE Spec2Model ----
(***************************************************************************)
(* Model of data-scripts/build_frequency_lists.py: the generator pipeline  *)
(* (main, parse_frequency_lists, filter_frequency_lists, the encoders)     *)
(* and the C++ runtime text that output_cpp emits (WordIterator,           *)
(* WordIterable, build_static_ranked_dicts, get_default_ranked_dicts).     *)
(*                                                                         *)
(* Characters are code points (97 = 'a'), tokens and paths are sequences   *)
(* of code points, a Python dict is a function whose DOMAIN is its key     *)
(* set, and Python's None is the empty tuple.                              *)
(***************************************************************************)
EXTENDS Integers, Sequences, FiniteSets, TLC

VARIABLES
    \* ---- generator process (the Python script)
    nargs,                   \* len(sys.argv) - 1
    output_file,             \* sys.argv[2]
    dir,                     \* the data directory: file stem -> first fields of its lines
    DICTIONARIES,            \* dict name -> cap (None = include all words)
    pc,                      \* position of the script
    todo,                    \* entries of os.listdir not yet visited
    freq_lists,              \* {list_name: {token: rank}}
    stdout,                  \* what the script printed
    error,                   \* the uncaught exception that ended the run, or "none"
    artifact,                \* the output file: None, or what was written to it
    nameOrder,               \* iteration order of the freq_lists dict
    ni,                      \* index into nameOrder of the list being iterated
    remaining,               \* tokens of the current list not yet iterated
    minimum_rank,            \* token -> lowest rank across all lists so far
    minimum_name,            \* token -> list name with that lowest rank
    filtered_token_and_rank, \* name -> [(token, rank), ...]
    token_count,             \* name -> current token count
    result,                  \* name -> [token, ...]
    seen,                    \* history: the (name, token, rank) triples lines 92-103 processed
    \* ---- packed table and C++ runtime
    lst,                     \* the word list output_cpp encodes
    literal,                 \* records written between the quotes of one FREQ_LISTS entry
    FREQ_LISTS,              \* the chars of that entry once compiled, NUL included
    _len,                    \* WordIterable::_len
    charSigned,              \* whether plain char is signed on the build's platform
    rt,                      \* position of the C++ process
    it,                      \* WordIterator of the range-for: [words |-> offset, cur |-> bytes]
    ranked,                  \* tokens build_ranked_dict has received, in order
    built,                   \* number of times build_static_ranked_dicts has run
    _ranked_dicts,           \* the static object: whether constructed, and tag -> RankedDict
    calls,                   \* reader -> number of get_default_ranked_dicts calls made
    returned                 \* history: what each call returned, and in which phase

genVars == <<nargs, output_file, dir, DICTIONARIES, pc, todo, freq_lists, stdout, error,
             artifact, nameOrder, ni, remaining, minimum_rank, minimum_name,
             filtered_token_and_rank, token_count, result, seen>>
rtVars == <<lst, literal, FREQ_LISTS, _len, charSigned, rt, it, ranked, built, _ranked_dicts, calls, returned>>
vars == <<genVars, rtVars>>

(***************************************************************************)
(* Bounds of the model.                                                    *)
(***************************************************************************)
MaxRank == 2     \* common ranks are 1..MaxRank; rare ranks start at RareBase
MaxCap == 1      \* caps are scaled down from 10000 to 1..MaxCap
MaxLines == 2    \* lines per input file
MaxWords == 2    \* words per encoded list
MaxCalls == 2    \* get_default_ranked_dicts calls per reader

(***************************************************************************)
(* Program constants.                                                      *)
(***************************************************************************)
RareBase == 10        \* 10**len(token)
Comma == 44           \* ','
DoubleQuote == 34     \* '"'
Backslash == 92
Dot == 46
Slash == 47
MaxLenByte == 255     \* assert len(word) <= 255
CharModulus == 256    \* values of one char
CharMax == 127        \* largest value of a signed char

None == <<>>
Some(n) == <<n>>

\* Python dict operations.
EmptyDict == [k \in {} |-> 0]
Put(d, k, v) == [x \in (DOMAIN d) \cup {k} |-> IF x = k THEN v ELSE d[x]]

Perms(S) == {s \in [1..Cardinality(S) -> S] : \A i, j \in 1..Cardinality(S) : s[i] = s[j] => i = j}

(***************************************************************************)
(* Inputs.                                                                 *)
(***************************************************************************)
Names == {"surnames", "male_names"}
Tokens == {<<97>>, <<98, 99>>, <<97, Comma>>}      \* a  bc  a,
Ranks == (1..MaxRank) \cup {RareBase}

\* The configuration table: surnames is capped, male_names is not.
Configs == {[n \in Names |-> IF n = "surnames" THEN Some(c) ELSE None] : c \in 1..MaxCap}

\* One loaded list: distinct tokens carry distinct ranks (a rank is a line number).
TokenToRanks ==
    UNION {{f \in [S -> Ranks] : \A s, t \in S : f[s] = f[t] => s = t} : S \in SUBSET Tokens}

(***************************************************************************)
(* filter_frequency_lists                                                  *)
(***************************************************************************)
RECURSIVE Pow(_, _)
Pow(b, n) == IF n = 0 THEN 1 ELSE b * Pow(b, n - 1)

is_rare_and_short(token, rank) == rank >= Pow(RareBase, Len(token))

has_comma_or_double_quote(token, rank, lst_name) ==
    \E i \in 1..Len(token) : token[i] = Comma \/ token[i] = DoubleQuote

\* list.sort(key=itemgetter(1)): a stable sort on the rank.
RECURSIVE Insert(_, _)
Insert(sorted, pair) ==
    IF sorted = <<>> THEN <<pair>>
    ELSE IF sorted[Len(sorted)][2] <= pair[2] THEN Append(sorted, pair)
    ELSE Append(Insert(SubSeq(sorted, 1, Len(sorted) - 1), pair), sorted[Len(sorted)])

\* line 114 left out
SortOmitted(pairs) == pairs

RECURSIVE SortByRank(_)
SortByRank(pairs) ==
    IF pairs = <<>> THEN <<>>
    ELSE Insert(SortByRank(SubSeq(pairs, 1, Len(pairs) - 1)), pairs[Len(pairs)])

Truthy(cutoff_limit) == cutoff_limit # None /\ cutoff_limit[1] # 0

\* lines 115-117 with the slice one pair too long
CutoffOneTooMany(token_rank_pairs, cutoff_limit) ==
    IF Truthy(cutoff_limit) /\ Len(token_rank_pairs) > cutoff_limit[1]
    THEN SubSeq(token_rank_pairs, 1, cutoff_limit[1] + 1)
    ELSE token_rank_pairs

\* lines 115-117
Cutoff(token_rank_pairs, cutoff_limit) ==
    IF Truthy(cutoff_limit) /\ Len(token_rank_pairs) > cutoff_limit[1]
    THEN SubSeq(token_rank_pairs, 1, cutoff_limit[1])
    ELSE token_rank_pairs

\* line 101 with the first owner kept whatever the rank, and with <= for <
ReplacesNever(rank, min_rank) == FALSE
ReplacesOnTie(rank, min_rank) == rank <= min_rank

\* line 101
Replaces(rank, min_rank) == rank < min_rank

CurName == nameOrder[ni]
ListTokens(i) == IF i <= Len(nameOrder) THEN DOMAIN freq_lists[nameOrder[i]] ELSE {}

filterVars == <<nameOrder, ni, remaining, minimum_rank, minimum_name,
                filtered_token_and_rank, token_count, result, seen>>
inputVars == <<nargs, output_file, dir, DICTIONARIES>>

\* lines 84-90, and the iterator of line 91
FilterStart ==
    /\ pc = "filter"
    /\ \E order \in Perms(DOMAIN freq_lists) :
          /\ nameOrder' = order
          /\ remaining' = IF Len(order) >= 1 THEN DOMAIN freq_lists[order[1]] ELSE {}
    /\ ni' = 1
    /\ filtered_token_and_rank' = [n \in DOMAIN freq_lists |-> <<>>]
    /\ token_count' = [n \in DOMAIN freq_lists |-> 0]
    /\ minimum_rank' = EmptyDict
    /\ minimum_name' = EmptyDict
    /\ pc' = "min_loop"
    /\ UNCHANGED <<inputVars, todo, freq_lists, stdout, error, artifact, result, seen, rtVars>>

\* lines 92-103: one (name, token, rank) triple
MinStep ==
    /\ pc = "min_loop"
    /\ ni <= Len(nameOrder)
    /\ \E token \in remaining :
          LET name == CurName
              rank == freq_lists[name][token]
          IN  /\ remaining' = remaining \ {token}
              /\ seen' = seen \cup {<<name, token, rank>>}
              /\ IF token \notin DOMAIN minimum_rank
                 THEN /\ minimum_rank' = Put(minimum_rank, token, rank)
                      /\ minimum_name' = Put(minimum_name, token, name)
                      /\ UNCHANGED <<pc, error>>
                 ELSE IF minimum_name[token] = name
                 THEN \* assert minimum_name[token] != name
                      /\ pc' = "exit"
                      /\ error' = "AssertionError"
                      /\ UNCHANGED <<minimum_rank, minimum_name>>
                 ELSE IF Replaces(rank, minimum_rank[token])
                 THEN /\ minimum_rank' = Put(minimum_rank, token, rank)
                      /\ minimum_name' = Put(minimum_name, token, name)
                      /\ UNCHANGED <<pc, error>>
                 ELSE UNCHANGED <<minimum_rank, minimum_name, pc, error>>
    /\ UNCHANGED <<inputVars, todo, freq_lists, stdout, artifact, nameOrder, ni,
                   filtered_token_and_rank, token_count, result, rtVars>>

\* line 91: the next list, or the end of the loop and the iterator of line 104
MinNext ==
    /\ pc = "min_loop"
    /\ remaining = {}
    /\ IF ni < Len(nameOrder)
       THEN /\ ni' = ni + 1
            /\ remaining' = ListTokens(ni + 1)
            /\ pc' = pc
       ELSE /\ ni' = 1
            /\ remaining' = ListTokens(1)
            /\ pc' = "keep_loop"
    /\ UNCHANGED <<inputVars, todo, freq_lists, stdout, error, artifact, nameOrder,
                   minimum_rank, minimum_name, filtered_token_and_rank, token_count,
                   result, seen, rtVars>>

\* lines 105-111
KeepStep ==
    /\ pc = "keep_loop"
    /\ ni <= Len(nameOrder)
    /\ \E token \in remaining :
          LET name == CurName
              rank == freq_lists[name][token]
          IN  /\ remaining' = remaining \ {token}
              /\ IF minimum_name[token] # name
                 THEN UNCHANGED <<filtered_token_and_rank, token_count>>
                 ELSE IF is_rare_and_short(token, rank)
                         \/ has_comma_or_double_quote(token, rank, name)
                 THEN UNCHANGED <<filtered_token_and_rank, token_count>>
                 ELSE /\ filtered_token_and_rank' =
                            [filtered_token_and_rank EXCEPT ![name] = Append(@, <<token, rank>>)]
                      /\ token_count' = [token_count EXCEPT ![name] = @ + 1]
    /\ UNCHANGED <<inputVars, pc, todo, freq_lists, stdout, error, artifact, nameOrder, ni,
                   minimum_rank, minimum_name, result, seen, rtVars>>

\* line 104: the next list, or the end of the loop
KeepNext ==
    /\ pc = "keep_loop"
    /\ remaining = {}
    /\ IF ni < Len(nameOrder)
       THEN /\ ni' = ni + 1
            /\ remaining' = ListTokens(ni + 1)
            /\ pc' = pc
       ELSE /\ ni' = 1
            /\ remaining' = {}
            /\ pc' = "cut_loop"
    /\ UNCHANGED <<inputVars, todo, freq_lists, stdout, error, artifact, nameOrder,
                   minimum_rank, minimum_name, filtered_token_and_rank, token_count,
                   result, seen, rtVars>>

\* lines 113-118: one name of filtered_token_and_rank
CutStep ==
    /\ pc = "cut_loop"
    /\ \E name \in (DOMAIN filtered_token_and_rank) \ (DOMAIN result) :
          LET token_rank_pairs == Cutoff(SortByRank(filtered_token_and_rank[name]),
                                         DICTIONARIES[name])
          IN  result' = Put(result, name, [i \in 1..Len(token_rank_pairs) |->
                                              token_rank_pairs[i][1]])
    /\ UNCHANGED <<inputVars, pc, todo, freq_lists, stdout, error, artifact, nameOrder, ni,
                   remaining, minimum_rank, minimum_name, filtered_token_and_rank,
                   token_count, seen, rtVars>>

\* line 119
FilterReturn ==
    /\ pc = "cut_loop"
    /\ DOMAIN result = DOMAIN filtered_token_and_rank
    /\ pc' = "output"
    /\ UNCHANGED <<inputVars, todo, freq_lists, stdout, error, artifact, filterVars, rtVars>>

FilterNext == FilterStart \/ MinStep \/ MinNext \/ KeepStep \/ KeepNext \/ CutStep \/ FilterReturn

(***************************************************************************)
(* Text helpers: str.lower, os.path.splitext, ','.join, codecs utf8.       *)
(***************************************************************************)
Lower(path) == [i \in 1..Len(path) |-> IF path[i] >= 65 /\ path[i] <= 90 THEN path[i] + 32
                                        ELSE path[i]]

LastIndex(path, c) ==
    IF \E i \in 1..Len(path) : path[i] = c
    THEN CHOOSE i \in 1..Len(path) : path[i] = c /\ \A j \in (i + 1)..Len(path) : path[j] # c
    ELSE 0

\* os.path.splitext(path)[1]: from the last dot of the last component, unless only dots
\* precede it there.
SplitExt(path) ==
    LET sepIndex == LastIndex(path, Slash)
        dotIndex == LastIndex(path, Dot)
    IN  IF dotIndex > sepIndex /\ \E k \in (sepIndex + 1)..(dotIndex - 1) : path[k] # Dot
        THEN SubSeq(path, dotIndex, Len(path))
        ELSE <<>>

RECURSIVE Join(_, _)
Join(words, sep) ==
    IF words = <<>> THEN <<>>
    ELSE IF Len(words) = 1 THEN words[1]
    ELSE words[1] \o <<sep>> \o Join(Tail(words), sep)

\* the bytes the utf8 writer emits for one code point
Utf8(cp) ==
    IF cp < 128 THEN <<cp>>
    ELSE IF cp < 2048 THEN <<192 + (cp \div 64), 128 + (cp % 64)>>
    ELSE <<224 + (cp \div 4096), 128 + ((cp \div 64) % 64), 128 + (cp % 64)>>

(***************************************************************************)
(* output_cpp's record for one word, and the C++ compiler's reading of it. *)
(***************************************************************************)
\* escape(x), lines 137-138, for one character
EscapeChar(c) == IF c = Backslash \/ c = DoubleQuote THEN <<Backslash, c>> ELSE <<c>>

RECURSIVE EscapeRange(_, _, _)
EscapeRange(x, lo, hi) ==
    IF lo > hi THEN <<>>
    ELSE IF lo = hi THEN EscapeChar(x[lo])
    ELSE EscapeRange(x, lo, (lo + hi) \div 2) \o EscapeRange(x, ((lo + hi) \div 2) + 1, hi)

escape(x) == EscapeRange(x, 1, Len(x))

\* "\\%03o" % n: the three octal digits after the backslash
Octal(n) == <<(n \div 64) % 8, (n \div 8) % 8, n % 8>>

\* lines 197-198: what is written for one word
WordRecord(word) == [octal |-> Octal(Len(word)), text |-> escape(word)]

\* A backslash of a literal's text starts an escape sequence when an even number of
\* backslashes precedes it directly.
BackslashRun(text, i) ==
    IF \E j \in 1..(i - 1) : text[j] # Backslash
    THEN i - 1 - (CHOOSE j \in 1..(i - 1) :
                     text[j] # Backslash /\ \A k \in (j + 1)..(i - 1) : text[k] = Backslash)
    ELSE i - 1
StartsEscape(text, i) == text[i] = Backslash /\ BackslashRun(text, i) % 2 = 0

RECURSIVE CompileRange(_, _, _)
CompileRange(text, lo, hi) ==
    IF lo > hi THEN <<>>
    ELSE IF lo = hi THEN (IF StartsEscape(text, lo) THEN <<>> ELSE Utf8(text[lo]))
    ELSE CompileRange(text, lo, (lo + hi) \div 2) \o CompileRange(text, ((lo + hi) \div 2) + 1, hi)

\* the chars the compiler stores for one record: the octal escape, then the text
CompileRecord(rec) ==
    <<((rec.octal[1] * 64) + (rec.octal[2] * 8) + rec.octal[3]) % CharModulus>>
        \o CompileRange(rec.text, 1, Len(rec.text))

RECURSIVE CompileLiteral(_)
CompileLiteral(records) ==
    IF records = <<>> THEN <<>>
    ELSE CompileLiteral(SubSeq(records, 1, Len(records) - 1)) \o CompileRecord(records[Len(records)])

\* lines 195-198 for a whole list: the records written before an assertion fails
RECURSIVE WrittenRecords(_)
WrittenRecords(words) ==
    IF words = <<>> THEN <<>>
    ELSE IF \E i \in 1..(Len(words) - 1) : Len(words[i]) > MaxLenByte
    THEN WrittenRecords(SubSeq(words, 1, Len(words) - 1))
    ELSE IF Len(words[Len(words)]) > MaxLenByte
    THEN WrittenRecords(SubSeq(words, 1, Len(words) - 1))
    ELSE Append(WrittenRecords(SubSeq(words, 1, Len(words) - 1)), WordRecord(words[Len(words)]))

(***************************************************************************)
(* main, parse_frequency_lists and the three encoders                      *)
(***************************************************************************)
Stems == Names \cup {"en"}
upper == [n \in Names |-> IF n = "surnames" THEN "SURNAMES" ELSE "MALE_NAMES"]
OutputPaths == {<<102, Dot, 99, 112, 112>>,    \* f.cpp
                <<102, Dot, 67, 80, 80>>,      \* f.CPP
                <<102, Dot, 104, 112, 112>>,   \* f.hpp
                <<102, Dot, 106, 115>>,        \* f.js
                <<102>>}                       \* f
ExtCpp == <<Dot, 99, 112, 112>>
ExtHpp == <<Dot, 104, 112, 112>>

RECURSIVE SeqsUpTo(_, _)
SeqsUpTo(S, n) == IF n = 0 THEN {<<>>}
                  ELSE SeqsUpTo(S, n - 1) \cup {Append(q, x) : q \in SeqsUpTo(S, n - 1), x \in S}

\* a file's rows, each given by its first whitespace-delimited field
Files == SeqsUpTo(Tokens, MaxLines)
\* an entry whose stem is not configured is never opened: one content stands for all
Dirs == UNION {{d \in [S -> Files] : \A n \in S \ Names : d[n] = <<<<97>>>>} : S \in SUBSET Stems}

\* lines 51-56: rank = i + 1 for the i-th line, token_to_rank[token] = rank
RECURSIVE Enumerate(_, _)
Enumerate(lines, n) == IF n = 0 THEN EmptyDict ELSE Put(Enumerate(lines, n - 1), lines[n], n)

\* lines 284-290
OutputFn ==
    LET ext == SplitExt(Lower(output_file))
    IN  IF ext = ExtCpp THEN "output_cpp" ELSE IF ext = ExtHpp THEN "output_hpp"
        ELSE "output_coffee"

\* lines 277-280
Main ==
    /\ pc = "main"
    /\ IF nargs # 2
       THEN /\ stdout' = Append(stdout, <<"usage">>)
            /\ pc' = "exit"
            /\ UNCHANGED <<todo, freq_lists>>
       ELSE /\ pc' = "parse"
            /\ todo' = DOMAIN dir
            /\ freq_lists' = EmptyDict
            /\ UNCHANGED stdout
    /\ UNCHANGED <<inputVars, error, artifact, filterVars, rtVars>>

\* lines 45-57: one directory entry
ParseFile ==
    /\ pc = "parse"
    /\ \E filename \in todo :
          /\ todo' = todo \ {filename}
          /\ IF filename \notin DOMAIN DICTIONARIES
             THEN /\ stdout' = Append(stdout, <<"Warning: not in DICTIONARY settings", filename>>)
                  /\ UNCHANGED freq_lists
             ELSE /\ freq_lists' = Put(freq_lists, filename,
                                       Enumerate(dir[filename], Len(dir[filename])))
                  /\ UNCHANGED stdout
    /\ UNCHANGED <<inputVars, pc, error, artifact, filterVars, rtVars>>

\* lines 58-62: the first configured name without a list reaches line 61, whose
\* format argument freq_list is bound nowhere
ParseCheck ==
    /\ pc = "parse"
    /\ todo = {}
    /\ IF \E freq_list_name \in DOMAIN DICTIONARIES : freq_list_name \notin DOMAIN freq_lists
       THEN /\ error' = "NameError"
            /\ pc' = "exit"
       ELSE /\ pc' = "filter"
            /\ UNCHANGED error
    /\ UNCHANGED <<inputVars, todo, freq_lists, stdout, artifact, filterVars, rtVars>>

\* lines 125-135, called as output_fn(output_file, script_name, freq_lists): line 126
\* unpacks the path string itself into a 1-tuple
OutputCoffee ==
    /\ pc = "output"
    /\ OutputFn = "output_coffee"
    /\ IF Len(output_file) # 1
       THEN /\ error' = "ValueError"
            /\ UNCHANGED artifact
       ELSE /\ \E order \in Perms(DOMAIN result) :
                  artifact' = [path |-> <<output_file[1]>>, format |-> "module",
                               body |-> [i \in 1..Len(order) |->
                                            <<order[i], Join(result[order[i]], Comma)>>]]
            /\ UNCHANGED error
    /\ pc' = "exit"
    /\ UNCHANGED <<inputVars, todo, freq_lists, stdout, filterVars, rtVars>>

\* lines 140-169
OutputHpp ==
    /\ pc = "output"
    /\ OutputFn = "output_hpp"
    /\ \E freq_lists_alist \in Perms(DOMAIN result) :
          artifact' = [path |-> output_file, format |-> "declaration",
                       body |-> [i \in 1..Len(freq_lists_alist) |-> upper[freq_lists_alist[i]]]
                                   \o <<"USER_INPUTS">>]
    /\ pc' = "exit"
    /\ UNCHANGED <<inputVars, todo, freq_lists, stdout, error, filterVars, rtVars>>

\* lines 171-274
OutputCpp ==
    /\ pc = "output"
    /\ OutputFn = "output_cpp"
    /\ \E freq_lists_alist \in Perms(DOMAIN result) :
          LET failing == {i \in 1..Len(freq_lists_alist) :
                             \E k \in 1..Len(result[freq_lists_alist[i]]) :
                                 Len(result[freq_lists_alist[i]][k]) > MaxLenByte}
              stop == IF failing = {} THEN Len(freq_lists_alist)
                      ELSE CHOOSE i \in failing : \A j \in failing : i <= j
          IN  /\ artifact' = [path |-> output_file, format |-> "definition",
                              body |-> [i \in 1..stop |->
                                           WrittenRecords(result[freq_lists_alist[i]])]]
              /\ error' = IF failing = {} THEN error ELSE "AssertionError"
    /\ pc' = "exit"
    /\ UNCHANGED <<inputVars, todo, freq_lists, stdout, filterVars, rtVars>>

MainNext == Main \/ ParseFile \/ ParseCheck \/ FilterNext \/ OutputCoffee \/ OutputHpp \/ OutputCpp

(***************************************************************************)
(* The packed table at run time: FREQ_LISTS, WordIterator, WordIterable,   *)
(* build_static_ranked_dicts and get_default_ranked_dicts.  One entry of   *)
(* FREQ_LISTS is modelled; the loop of lines 259-263 walks every entry     *)
(* with the same code.                                                     *)
(***************************************************************************)
Readers == {"r1", "r2"}
Rep(c, n) == [i \in 1..n |-> c]
Words == {<<>>, <<97>>, <<233>>, <<Backslash>>,
          Rep(97, CharMax + 1), Rep(97, MaxLenByte), Rep(97, MaxLenByte + 1),
          Rep(233, CharMax + 1)}

\* the array the compiler lays out for the entry: its chars and the terminating NUL
CString(records) == CompileLiteral(records) \o <<0>>

\* std::strlen(strs): the offset of the first NUL
strlen(strs) ==
    LET nuls == {i \in 1..Len(strs) : strs[i] = 0}
    IN  (CHOOSE i \in nuls : \A j \in nuls : i <= j) - 1

\* _words[0] at an offset, as a value of type char
CharAt(words) ==
    IF charSigned /\ FREQ_LISTS[words + 1] > CharMax THEN FREQ_LISTS[words + 1] - CharModulus
    ELSE FREQ_LISTS[words + 1]

InArray(words) == words >= 0 /\ words < Len(FREQ_LISTS)

\* lines 208-212; ub marks a read outside the array or a range that ends before it starts
_get_cur(words) ==
    IF ~InArray(words) THEN [ub |-> TRUE, cur |-> <<>>]
    ELSE IF CharAt(words) = 0 THEN [ub |-> FALSE, cur |-> <<>>]
    ELSE IF CharAt(words) < 0 \/ ~InArray(words + CharAt(words)) THEN [ub |-> TRUE, cur |-> <<>>]
    ELSE [ub |-> FALSE, cur |-> SubSeq(FREQ_LISTS, words + 2, words + 1 + CharAt(words))]

\* lines 215-216
WordIterator(words) == [words |-> words, cur |-> _get_cur(words).cur]

\* lines 246-252
begin == WordIterator(0)
end == WordIterator(_len)

\* build_ranked_dict of frequency_lists_common.hpp: token -> position + 1
build_ranked_dict(tokens) ==
    [t \in {tokens[i] : i \in 1..Len(tokens)} |->
        CHOOSE i \in 1..Len(tokens) : tokens[i] = t /\ \A j \in 1..(i - 1) : tokens[j] # t]

\* lines 195-198: one word of the list
WriteWord ==
    /\ rt = "write"
    /\ Len(literal) < Len(lst)
    /\ LET word == lst[Len(literal) + 1]
       IN  IF Len(word) <= MaxLenByte
           THEN /\ literal' = Append(literal, WordRecord(word))
                /\ UNCHANGED rt
           ELSE /\ rt' = "assert_failed"
                /\ UNCHANGED literal
    /\ UNCHANGED <<genVars, lst, FREQ_LISTS, _len, charSigned, it, ranked, built, _ranked_dicts,
                   calls, returned>>

\* line 199; the artifact is then compiled and the process started
CloseLiteral ==
    /\ rt = "write"
    /\ Len(literal) = Len(lst)
    /\ rt' = "static_init"
    /\ FREQ_LISTS' = CString(literal)
    /\ UNCHANGED <<genVars, lst, literal, _len, charSigned, it, ranked, built, _ranked_dicts,
                   calls, returned>>

\* line 267 entering lines 256-261: the range-for of build_ranked_dict takes begin()
BuildBegin ==
    /\ rt = "static_init"
    /\ built' = built + 1
    /\ _len' = strlen(FREQ_LISTS)
    /\ it' = begin
    /\ rt' = IF _get_cur(0).ub THEN "ub" ELSE "loop"
    /\ UNCHANGED <<genVars, lst, literal, FREQ_LISTS, charSigned, ranked, _ranked_dicts, calls,
                   returned>>

\* one turn of the range-for: it != end(), *it, ++it (lines 219-235)
BuildStep ==
    /\ rt = "loop"
    /\ end.words # it.words
    /\ ranked' = Append(ranked, it.cur)
    /\ it' = WordIterator(it.words + 1 + CharAt(it.words))
    /\ rt' = IF _get_cur(it.words + 1 + CharAt(it.words)).ub THEN "ub" ELSE "loop"
    /\ UNCHANGED <<genVars, lst, literal, FREQ_LISTS, _len, charSigned, built, _ranked_dicts,
                   calls, returned>>

\* the range-for ends; lines 260-267 store the mapping in the static object
BuildEnd ==
    /\ rt = "loop"
    /\ end.words = it.words
    /\ _ranked_dicts' = [constructed |-> TRUE, dicts |-> <<build_ranked_dict(ranked)>>]
    /\ rt' = "main"
    /\ UNCHANGED <<genVars, lst, literal, FREQ_LISTS, _len, charSigned, it, ranked, built,
                   calls, returned>>

\* lines 269-271 as a getter that runs the build routine on every call
GetRebuildsOnCall(r) ==
    /\ rt \in {"static_init", "main"}
    /\ calls[r] < MaxCalls
    /\ calls' = [calls EXCEPT ![r] = @ + 1]
    /\ built' = built + 1
    /\ returned' = returned \cup {[reader |-> r, n |-> calls[r] + 1, value |-> _ranked_dicts,
                                   at |-> rt, constructed |-> _ranked_dicts.constructed]}
    /\ UNCHANGED <<genVars, lst, literal, FREQ_LISTS, _len, charSigned, rt, it, ranked,
                   _ranked_dicts>>

\* lines 269-271, called by a reader thread once main runs, or by the initializer of
\* another translation unit that is ordered before line 267
get_default_ranked_dicts(r) ==
    /\ rt \in {"static_init", "main"}
    /\ calls[r] < MaxCalls
    /\ calls' = [calls EXCEPT ![r] = @ + 1]
    /\ returned' = returned \cup {[reader |-> r, n |-> calls[r] + 1, value |-> _ranked_dicts,
                                   at |-> rt, constructed |-> _ranked_dicts.constructed]}
    /\ UNCHANGED <<genVars, lst, literal, FREQ_LISTS, _len, charSigned, rt, it, ranked, built,
                   _ranked_dicts>>

Call == \E r \in Readers : get_default_ranked_dicts(r)

RuntimeNext == WriteWord \/ CloseLiteral \/ BuildBegin \/ BuildStep \/ BuildEnd \/ Call

(***************************************************************************)
(* What the claims about filter_frequency_lists speak of, stated over the  *)
(* input freq_lists and never over the function's working dictionaries.    *)
(***************************************************************************)
Returned == pc = "output"
ListsWith(t) == {n \in DOMAIN freq_lists : t \in DOMAIN freq_lists[n]}
LoadedTokens == UNION {DOMAIN freq_lists[n] : n \in DOMAIN freq_lists}
LowestRank(t) == CHOOSE r \in {freq_lists[n][t] : n \in ListsWith(t)} :
                    \A n \in ListsWith(t) : r <= freq_lists[n][t]
Position(n) == CHOOSE i \in 1..Len(nameOrder) : nameOrder[i] = n
\* the list iterated first among those holding t at its lowest rank
Owner(t) == CHOOSE n \in ListsWith(t) :
               /\ freq_lists[n][t] = LowestRank(t)
               /\ \A m \in ListsWith(t) :
                     freq_lists[m][t] = LowestRank(t) => Position(n) <= Position(m)
Excluded(t, r) == r >= RareBase ^ Len(t) \/ \E i \in 1..Len(t) : t[i] \in {Comma, DoubleQuote}
Survivors(n) == {t \in DOMAIN freq_lists[n] : Owner(t) = n /\ ~Excluded(t, freq_lists[n][t])}
Occurrences(n, t) == {i \in 1..Len(result[n]) : result[n][i] = t}
InResult(n, t) == Occurrences(n, t) # {}
\* 1-based place of t among the survivors of n in rank order
Place(n, t) == Cardinality({u \in Survivors(n) : freq_lists[n][u] <= freq_lists[n][t]})
WithinCap(n, t) == DICTIONARIES[n] = None \/ Place(n, t) <= DICTIONARIES[n][1]

\* C1 as stated: every token present in two or more loaded lists appears in exactly one
\* filtered dictionary, the one in which its rank was minimal, whatever the ranks, token
\* lengths and caps.
C1_ExactlyOneMinimalDict ==
    Returned =>
        \A t \in LoadedTokens :
            Cardinality(ListsWith(t)) >= 2 =>
                /\ Cardinality({n \in DOMAIN result : InResult(n, t)}) = 1
                /\ \A n \in DOMAIN result :
                      InResult(n, t) => freq_lists[n][t] = LowestRank(t)

\* C1 amended: a token present in two or more loaded lists appears in at most one filtered
\* dictionary and at most once in it; that dictionary is the list holding it at its minimal
\* rank (the list iterated first on a tie); and it does appear there exactly when it is not
\* excluded (rare-and-short, comma or double quote) and lies within that list's cap.
C1_AtMostOneMinimalDict ==
    Returned =>
        \A t \in LoadedTokens :
            Cardinality(ListsWith(t)) >= 2 =>
                /\ \A n \in DOMAIN result :
                      InResult(n, t) =>
                          /\ n = Owner(t)
                          /\ freq_lists[n][t] = LowestRank(t)
                          /\ Cardinality(Occurrences(n, t)) = 1
                /\ InResult(Owner(t), t) <=>
                      /\ ~Excluded(t, LowestRank(t))
                      /\ WithinCap(Owner(t), t)

\* C1 witness: a token held by two lists at different ranks came out in the list of the
\* lower rank, which was iterated second.
C1_Witness ==
    /\ Returned
    /\ \E t \in LoadedTokens : \E n, m \in ListsWith(t) :
          /\ freq_lists[n][t] < freq_lists[m][t]
          /\ Position(m) < Position(n)
          /\ InResult(n, t)

\* C8: a filtered dictionary is never longer than its configured cap, and a dictionary
\* without a cap holds every token it owns that survives the exclusion predicates.
C8_CapRespected ==
    Returned =>
        \A n \in DOMAIN result :
            /\ DICTIONARIES[n] # None => Len(result[n]) <= DICTIONARIES[n][1]
            /\ DICTIONARIES[n] = None =>
                  /\ {result[n][i] : i \in 1..Len(result[n])} = Survivors(n)
                  /\ Len(result[n]) = Cardinality(Survivors(n))

\* C8 witness: a capped dictionary with more survivors than its cap came out cut to the
\* cap, next to an uncapped one.
C8_Witness ==
    /\ Returned
    /\ \E n \in DOMAIN result :
          /\ DICTIONARIES[n] # None
          /\ Cardinality(Survivors(n)) > DICTIONARIES[n][1]
          /\ Len(result[n]) = DICTIONARIES[n][1]
    /\ \E n \in DOMAIN result : DICTIONARIES[n] = None

\* C9: each filtered dictionary is in non-decreasing order of winning rank, and a cap keeps
\* the tokens of smallest winning rank among the owned, non-excluded ones.
C9_RankOrderAndSmallestKept ==
    Returned =>
        \A n \in DOMAIN result :
            /\ \A i, j \in 1..Len(result[n]) :
                  i < j => freq_lists[n][result[n][i]] <= freq_lists[n][result[n][j]]
            /\ \A i \in 1..Len(result[n]) :
                  /\ result[n][i] \in Survivors(n)
                  /\ freq_lists[n][result[n][i]] = LowestRank(result[n][i])
            /\ \A t \in Survivors(n) :
                  ~InResult(n, t) =>
                      \A i \in 1..Len(result[n]) :
                          freq_lists[n][result[n][i]] <= freq_lists[n][t]

\* C9 witness: the kept pairs were appended out of rank order, sorted, and then cut by
\* the cap.
C9_Witness ==
    /\ Returned
    /\ \E n \in DOMAIN result :
          /\ Len(filtered_token_and_rank[n]) >= 2
          /\ filtered_token_and_rank[n][1][2] > filtered_token_and_rank[n][2][2]
          /\ Len(result[n]) < Len(filtered_token_and_rank[n])
          /\ Len(result[n]) >= 1

SeenRanks(t) == {tr[3] : tr \in {x \in seen : x[2] = t}}
SeenLowest(t) == CHOOSE r \in SeenRanks(t) : \A q \in SeenRanks(t) : r <= q
SeenFirst(t) == CHOOSE n \in {x[1] : x \in {y \in seen : y[2] = t /\ y[3] = SeenLowest(t)}} :
                   \A y \in seen :
                       y[2] = t /\ y[3] = SeenLowest(t) => Position(n) <= Position(y[1])

\* C10: after any prefix of the (name, token, rank) triples, minimum_rank[token] is the
\* smallest rank seen so far for the token and minimum_name[token] is the first list, in
\* iteration order, in which that smallest rank was seen.
C10_RunningMinimum ==
    /\ DOMAIN minimum_rank = {tr[2] : tr \in seen}
    /\ DOMAIN minimum_name = {tr[2] : tr \in seen}
    /\ \A t \in DOMAIN minimum_rank :
          /\ minimum_rank[t] = SeenLowest(t)
          /\ minimum_name[t] = SeenFirst(t)

\* C10 witness: inside the loop, a token that had an owner was seen again from a
\* different list at the same rank and the earlier list is still its owner, and another
\* token was seen again at a strictly smaller rank and the later list took it over.
C10_Witness ==
    /\ pc = "min_loop"
    /\ \E x, y \in seen :
          /\ x[2] = y[2] /\ x[3] = y[3]
          /\ Position(x[1]) < Position(y[1])
          /\ minimum_name[x[2]] = x[1]
    /\ \E x, y \in seen :
          /\ x[2] = y[2] /\ y[3] < x[3]
          /\ Position(x[1]) < Position(y[1])
          /\ minimum_name[x[2]] = y[1]
          /\ minimum_rank[x[2]] = y[3]

(***************************************************************************)
(* Claims about the run of the script.                                     *)
(***************************************************************************)
HasDuplicate(lines) == \E i, j \in 1..Len(lines) : i < j /\ lines[i] = lines[j]
ParseReturned == nargs = 2 /\ pc \notin {"main", "parse"}
Printed(msg) == \E i \in 1..Len(stdout) : stdout[i] = msg
ClaimedFormat ==
    LET ext == SplitExt(Lower(output_file))
    IN  IF ext = ExtCpp THEN "definition" ELSE IF ext = ExtHpp THEN "declaration" ELSE "module"

\* C2: a file holding the same token on two lines aborts the run with a fatal error and
\* no artifact is produced: the later rank does not silently replace the earlier one, and
\* the assertion of filter_frequency_lists has fired once its first loop is over.
C2_DuplicateTokenIsFatal ==
    \A name \in DOMAIN freq_lists :
        HasDuplicate(dir[name]) =>
            /\ artifact = None
            /\ pc \notin {"keep_loop", "cut_loop", "output"}
            /\ pc = "exit" => error # "none"

\* C3: a configured name without a file, like a directory entry that is not configured,
\* is warned about and excluded, and parse_frequency_lists returns normally: the run is
\* not aborted by it.
C3_WarningsAreNonFatal ==
    ParseReturned =>
        /\ error # "NameError"
        /\ \A name \in (DOMAIN DICTIONARIES) \ (DOMAIN dir) :
              /\ Printed(<<"Warning: not in directory", name>>)
              /\ name \notin DOMAIN freq_lists
        /\ \A name \in (DOMAIN dir) \ (DOMAIN DICTIONARIES) :
              /\ Printed(<<"Warning: not in DICTIONARY settings", name>>)
              /\ name \notin DOMAIN freq_lists

\* C4: with two positional arguments, a run that reaches the encoders writes the artifact
\* to the given output path in the format its extension selects: .cpp the definition
\* format, .hpp the declaration format, anything else the module format.
C4_EncoderByExtension ==
    (nargs = 2 /\ pc = "exit" /\ error # "NameError") =>
        /\ artifact # None
        /\ artifact.path = output_file
        /\ artifact.format = ClaimedFormat

(***************************************************************************)
(* Claims about the packed table and the run-time mapping.                 *)
(***************************************************************************)
RECURSIVE Utf8Range(_, _, _)
Utf8Range(x, lo, hi) ==
    IF lo > hi THEN <<>>
    ELSE IF lo = hi THEN Utf8(x[lo])
    ELSE Utf8Range(x, lo, (lo + hi) \div 2) \o Utf8Range(x, ((lo + hi) \div 2) + 1, hi)
\* the bytes of a token in the artifact
TokenBytes(word) == Utf8Range(word, 1, Len(word))

\* C5: a sequence of tokens of lengths 0..255, encoded as output_cpp does and walked from
\* begin() until the position equals end(), comes back as the same tokens in the same
\* order, and a token of length 256 makes the encoding fail.
C5_PackedRoundTrip ==
    /\ rt # "ub"
    /\ rt = "main" => ranked = [i \in 1..Len(lst) |-> TokenBytes(lst[i])]
    /\ rt \notin {"write", "assert_failed"} => \A i \in 1..Len(lst) : Len(lst[i]) <= MaxLenByte

\* C6: no token of more than 255 bytes is written by output_cpp, and the length byte of
\* every record it writes equals the number of token bytes that follow it in the table,
\* multi-byte characters included.
C6_LengthByteCountsBytes ==
    \A i \in 1..Len(literal) :
        /\ Len(TokenBytes(lst[i])) <= MaxLenByte
        /\ CompileRecord(literal[i])[1] = Len(CompileRecord(literal[i])) - 1

GenIdle ==
    /\ nargs = 2 /\ output_file = <<>> /\ dir = EmptyDict
    /\ DICTIONARIES \in Configs /\ DICTIONARIES["surnames"] = Some(1)
    /\ pc = "idle" /\ todo = {} /\ freq_lists = EmptyDict /\ stdout = <<>>
    /\ error = "none" /\ artifact = None
    /\ nameOrder = <<>> /\ ni = 1 /\ remaining = {}
    /\ minimum_rank = EmptyDict /\ minimum_name = EmptyDict
    /\ filtered_token_and_rank = EmptyDict /\ token_count = EmptyDict
    /\ result = EmptyDict /\ seen = {}

RtIdle ==
    /\ lst = <<>> /\ literal = <<>> /\ FREQ_LISTS = <<0>> /\ _len = 0
    /\ charSigned = TRUE /\ rt = "idle"
    /\ it = [words |-> 0, cur |-> <<>>] /\ ranked = <<>>
    /\ built = 0 /\ _ranked_dicts = [constructed |-> FALSE, dicts |-> <<>>]
    /\ calls = EmptyDict /\ returned = {}

(***************************************************************************)
(* SpecFilter: filter_frequency_lists applied to every bounded input.      *)
(***************************************************************************)
InitFilter ==
    /\ nargs = 2 /\ output_file = <<>> /\ dir = EmptyDict
    /\ DICTIONARIES \in Configs
    /\ freq_lists \in [Names -> TokenToRanks]
    /\ pc = "filter" /\ todo = {} /\ stdout = <<>> /\ error = "none" /\ artifact = None
    /\ nameOrder = <<>> /\ ni = 1 /\ remaining = {}
    /\ minimum_rank = EmptyDict /\ minimum_name = EmptyDict
    /\ filtered_token_and_rank = EmptyDict /\ token_count = EmptyDict
    /\ result = EmptyDict /\ seen = {}
    /\ RtIdle

SpecFilter == InitFilter /\ [][FilterNext]_vars

(***************************************************************************)
(* SpecMain: one run of the script on every bounded command line and data  *)
(* directory.                                                              *)
(***************************************************************************)
InitMain ==
    /\ nargs \in 1..3
    /\ output_file \in OutputPaths
    /\ dir \in Dirs
    /\ DICTIONARIES \in Configs /\ DICTIONARIES["surnames"] = Some(1)
    /\ pc = "main" /\ todo = {} /\ freq_lists = EmptyDict /\ stdout = <<>>
    /\ error = "none" /\ artifact = None
    /\ nameOrder = <<>> /\ ni = 1 /\ remaining = {}
    /\ minimum_rank = EmptyDict /\ minimum_name = EmptyDict
    /\ filtered_token_and_rank = EmptyDict /\ token_count = EmptyDict
    /\ result = EmptyDict /\ seen = {}
    /\ RtIdle

SpecMain == InitMain /\ [][MainNext]_vars

(***************************************************************************)
(* SpecRuntime: output_cpp writes one list, the artifact is built for a    *)
(* platform with signed or unsigned char, and the process runs.            *)
(***************************************************************************)
InitRuntime ==
    /\ GenIdle
    /\ lst \in SeqsUpTo(Words, MaxWords)
    /\ charSigned \in BOOLEAN
    /\ literal = <<>> /\ FREQ_LISTS = <<0>> /\ _len = 0
    /\ rt = "write" /\ it = [words |-> 0, cur |-> <<>>] /\ ranked = <<>>
    /\ built = 0 /\ _ranked_dicts = [constructed |-> FALSE, dicts |-> <<>>]
    /\ calls = [r \in Readers |-> 0] /\ returned = {}

SpecRuntime == InitRuntime /\ [][RuntimeNext]_vars

====
